---- MODULE Spec2Model ----
(***************************************************************************)
(* QCmanager (ufo/filters/QCmanager.cc): the QC flag matrix of one         *)
(* ObsSpace shard per MPI rank, the constructor's missing-data pass,       *)
(* postFilter's H(x)-failure pass, and print's per-variable count,         *)
(* allReduce, report and completeness ASSERT.                              *)
(***************************************************************************)
EXTENDS Integers, Sequences, FiniteSets, TLC

\* ------------------------------------------------------------------ bounds
NumVars == 2
MaxLocs == 2
MaxShardLocs == 1
NumWorkers == 2
MaxExternal == 1

\* --------------------------------------------------------- QCflags, values
pass == 0
missing == 1
preQC == 2
bounds == 3
domain == 4
black == 5
Hfailed == 6
thinned == 7
fguess == 10
gnssroA == 76
gnssroB == 77

\* util::missingValue for int (flags), float (ObsValue, ObsError), double (H(x))
imissValue == -2147483643
rmiss == -999
dmiss == -998
\* what an ObsValue or ObsError entry may be, and what an H(x) entry may be
ObsValues == {rmiss, 1}
HofxValues == {dmiss, 1}

Vars == 0 .. NumVars - 1
Locs(n) == 0 .. n - 1

\* codes written by the other filters (out of this file)
ExternalCodes == {preQC, bounds, domain, black, thinned, fguess, gnssroA, gnssroB}
\* what a flag vector handed to the constructor may already hold besides pass
PreSeedCodes == ExternalCodes \cup {missing, imissValue}
RecognizedCodes == {pass, missing, Hfailed} \cup ExternalCodes
\* raw codes that QCmanager::print has no counter for
StrayCodes == (0 .. 12) \ RecognizedCodes

\* the counters of print, in the order of their allReduceInPlace calls
ReduceOrder ==
    <<"iobs", "ipass", "imiss", "ipreq", "ibnds", "iwhit",
      "iblck", "iherr", "ifgss", "ignss", "ithin">>
NumReduce == Len(ReduceOrder)

VARIABLES
    size,     \* obsdb_.comm().size()
    nlocs,    \* nlocs[r]: obsdb_.nlocs() on rank r
    flags,    \* flags[r]: [nvars, nlocs, val], the ObsDataVector<int> flags_ on rank r
    pc,       \* pc[r]: where rank r's QCmanager is
    call,     \* the operation that made the last step, with its arguments
    nwrites,  \* writes by other filters into the flag vectors so far
    jj,       \* jj[r]: print's loop variable on rank r
    rk,       \* rk[r]: how many allReduceInPlace calls of this jj rank r has entered
    loc,      \* loc[r]: print's local counters on rank r (reduced in place)
    coll,     \* coll[r]: rank r's contribution to the collective it is blocked in
    out,      \* out[r]: what rank r wrote to os in its current or last print
    dtor      \* dtor[r]: print was entered from ~QCmanager

vars == <<size, nlocs, flags, pc, call, nwrites, jj, rk, loc, coll, out, dtor>>

Workers == 0 .. size - 1

NoCall == [op |-> "none"]
NoColl == [var |-> -1, ctr |-> "none", val |-> 0]
ZeroCounts == [c \in {ReduceOrder[i] : i \in 1 .. NumReduce} |-> 0]

\* a V x N array filled from the values S
Arrays(nv, nl, S) == [Locs(nv) -> [Locs(nl) -> S]]
Matrix(nv, nl, S) == {[nvars |-> nv, nlocs |-> nl, val |-> a] : a \in Arrays(nv, nl, S)}

FreshFlags(n) == [nvars |-> NumVars, nlocs |-> n, val |-> [jv \in Vars |-> [jobs \in Locs(n) |-> pass]]]

\* the flag vector the caller hands to the constructor: V x N, or mis-shaped
CallerFlags(n) ==
    {FreshFlags(n),
     [nvars |-> NumVars + 1, nlocs |-> n,
      val |-> [jv \in Locs(NumVars + 1) |-> [jobs \in Locs(n) |-> pass]]],
     [nvars |-> NumVars, nlocs |-> n + 1,
      val |-> [jv \in Vars |-> [jobs \in Locs(n + 1) |-> pass]]]}

InitWith(sz, maxn) ==
    /\ size = sz
    /\ nlocs \in [0 .. sz - 1 -> 0 .. maxn]
    /\ flags \in {f \in [0 .. sz - 1 -> UNION {CallerFlags(n) : n \in 0 .. maxn}] :
                    \A r \in 0 .. sz - 1 : f[r] \in CallerFlags(nlocs[r])}
    /\ pc = [r \in 0 .. sz - 1 |-> "new"]
    /\ call = NoCall
    /\ nwrites = 0
    /\ jj = [r \in 0 .. sz - 1 |-> 0]
    /\ rk = [r \in 0 .. sz - 1 |-> 0]
    /\ loc = [r \in 0 .. sz - 1 |-> ZeroCounts]
    /\ coll = [r \in 0 .. sz - 1 |-> NoColl]
    /\ out = [r \in 0 .. sz - 1 |-> <<>>]
    /\ dtor = [r \in 0 .. sz - 1 |-> FALSE]

\* one rank, up to MaxLocs records
Init == InitWith(1, MaxLocs)
\* NumWorkers ranks, up to MaxShardLocs records each
InitShard == InitWith(NumWorkers, MaxShardLocs)

\* ------------------------------------------------- the other filters' writes
SetCell(f, jv, jobs, c) == [f EXCEPT !.val[jv][jobs] = c]

\* a cell of the flag vector is set before it reaches the constructor
PreSeed(r) ==
    /\ pc[r] = "new"
    /\ nwrites < MaxExternal
    /\ \E jv \in Locs(flags[r].nvars), jobs \in Locs(flags[r].nlocs), c \in PreSeedCodes :
          flags' = [flags EXCEPT ![r] = SetCell(flags[r], jv, jobs, c)]
    /\ nwrites' = nwrites + 1
    /\ call' = [op |-> "preseed", rank |-> r]
    /\ UNCHANGED <<size, nlocs, pc, jj, rk, loc, coll, out, dtor>>

\* another filter rejects a cell while the QCmanager is alive and not printing
ExternalFilter(r) ==
    /\ pc[r] = "live"
    /\ nwrites < MaxExternal
    /\ \E jv \in Vars, jobs \in Locs(nlocs[r]), c \in ExternalCodes :
          flags' = [flags EXCEPT ![r] = SetCell(flags[r], jv, jobs, c)]
    /\ nwrites' = nwrites + 1
    /\ call' = [op |-> "filter", rank |-> r]
    /\ UNCHANGED <<size, nlocs, pc, jj, rk, loc, coll, out, dtor>>

\* ------------------------------------------------------------- constructor
\* the ASSERTs without the one on the number of records of obserr
DimsOkNoErrLocs(qcflags, obserr, nl) ==
    /\ qcflags.nvars = NumVars
    /\ qcflags.nlocs = nl
    /\ obserr.nvars = NumVars

\* the ASSERTs on the shapes of flags_ and obserr
DimsOk(qcflags, obserr, nl) ==
    /\ qcflags.nvars = NumVars
    /\ qcflags.nlocs = nl
    /\ obserr.nvars = NumVars
    /\ obserr.nlocs = nl

\* the loop with a test that spares cells another filter has already rejected
MissingPassKeepsRejected(qcflags, obs, obserr, nl) ==
    [qcflags EXCEPT !.val =
        [jv \in DOMAIN qcflags.val |-> [jobs \in DOMAIN qcflags.val[jv] |->
            IF /\ qcflags.val[jv][jobs] \in {pass, imissValue}
               /\ \/ qcflags.val[jv][jobs] = imissValue
                  \/ obs.val[jv][jobs] = rmiss
                  \/ obserr.val[jv][jobs] = rmiss
            THEN missing
            ELSE qcflags.val[jv][jobs]]]]

\* the loop as an assignment to every cell: missing on a sentinel, pass otherwise
MissingPassResets(qcflags, obs, obserr, nl) ==
    [qcflags EXCEPT !.val =
        [jv \in DOMAIN qcflags.val |-> [jobs \in DOMAIN qcflags.val[jv] |->
            IF /\ jv \in Vars
               /\ jobs \in Locs(nl)
               /\ \/ qcflags.val[jv][jobs] = imissValue
                  \/ obs.val[jv][jobs] = rmiss
                  \/ obserr.val[jv][jobs] = rmiss
            THEN missing
            ELSE pass]]]

\* the loop rejecting a record for all variables when one of them has a sentinel
MissingPassWholeRecord(qcflags, obs, obserr, nl) ==
    [qcflags EXCEPT !.val =
        [jv \in DOMAIN qcflags.val |-> [jobs \in DOMAIN qcflags.val[jv] |->
            IF /\ jv \in Vars
               /\ jobs \in Locs(nl)
               /\ \E kv \in Vars :
                     \/ qcflags.val[kv][jobs] = imissValue
                     \/ obs.val[kv][jobs] = rmiss
                     \/ obserr.val[kv][jobs] = rmiss
            THEN missing
            ELSE qcflags.val[jv][jobs]]]]

\* the double loop of the constructor
MissingPass(qcflags, obs, obserr, nl) ==
    [qcflags EXCEPT !.val =
        [jv \in DOMAIN qcflags.val |-> [jobs \in DOMAIN qcflags.val[jv] |->
            IF /\ jv \in Vars
               /\ jobs \in Locs(nl)
               /\ \/ qcflags.val[jv][jobs] = imissValue
                  \/ obs.val[jv][jobs] = rmiss
                  \/ obserr.val[jv][jobs] = rmiss
            THEN missing
            ELSE qcflags.val[jv][jobs]]]]

\* the obserr vectors a caller may hand over: V x N, or mis-shaped
ObsErrInputs(n) ==
    Matrix(NumVars, n, ObsValues)
        \cup Matrix(NumVars + 1, n, {1})
        \cup Matrix(NumVars, n + 1, {1})

Construct(r) ==
    /\ pc[r] = "new"
    /\ \E obs \in Matrix(NumVars, nlocs[r], ObsValues),
          obserr \in ObsErrInputs(nlocs[r]) :
          /\ call' = [op |-> "ctor", rank |-> r, qcflags |-> flags[r],
                      obs |-> obs, obserr |-> obserr]
          /\ IF DimsOk(flags[r], obserr, nlocs[r])
                THEN /\ flags' = [flags EXCEPT ![r] = MissingPass(flags[r], obs, obserr, nlocs[r])]
                     /\ pc' = [pc EXCEPT ![r] = "live"]
                ELSE /\ flags' = flags
                     /\ pc' = [pc EXCEPT ![r] = "failed"]
    /\ UNCHANGED <<size, nlocs, nwrites, jj, rk, loc, coll, out, dtor>>

\* a second QCmanager is constructed on the flag vector the first has just been
\* constructed on, with the same obsdb and obserr
ConstructAgain(r) ==
    /\ pc[r] = "live"
    /\ call.op = "ctor"
    /\ call.rank = r
    /\ call' = [op |-> "ctorAgain", rank |-> r, qcflags |-> flags[r],
                obs |-> call.obs, obserr |-> call.obserr]
    /\ flags' = [flags EXCEPT ![r] = MissingPass(flags[r], call.obs, call.obserr, nlocs[r])]
    /\ UNCHANGED <<size, nlocs, pc, nwrites, jj, rk, loc, coll, out, dtor>>

\* -------------------------------------------------------------- postFilter
\* where hofx holds the value of variable jv at record jobs
HofxIndex(jv, jobs) == NumVars * jobs + jv

\* the loop reading hofx variable-major (all records of a variable together)
HfailedPassVarMajor(f, hofx, nl) ==
    [f EXCEPT !.val =
        [jv \in Vars |-> [jobs \in Locs(nl) |->
            IF f.val[jv][jobs] = 0 /\ hofx[nl * jv + jobs] = dmiss
            THEN Hfailed
            ELSE f.val[jv][jobs]]]]

\* the loop without the test that the cell still passes
HfailedPassNoGuard(f, hofx, nl) ==
    [f EXCEPT !.val =
        [jv \in Vars |-> [jobs \in Locs(nl) |->
            IF hofx[HofxIndex(jv, jobs)] = dmiss
            THEN Hfailed
            ELSE f.val[jv][jobs]]]]

\* the loop as an assignment of one of two outcomes to every cell
HfailedPassClears(f, hofx, nl) ==
    [f EXCEPT !.val =
        [jv \in Vars |-> [jobs \in Locs(nl) |->
            IF hofx[HofxIndex(jv, jobs)] = dmiss /\ f.val[jv][jobs] = 0
            THEN Hfailed
            ELSE IF hofx[HofxIndex(jv, jobs)] # dmiss /\ f.val[jv][jobs] = Hfailed
                 THEN pass
                 ELSE f.val[jv][jobs]]]]

\* the loop adding Hfailed to the code of every cell whose H(x) value is missing
HfailedPassAdds(f, hofx, nl) ==
    [f EXCEPT !.val =
        [jv \in Vars |-> [jobs \in Locs(nl) |->
            IF hofx[HofxIndex(jv, jobs)] = dmiss
            THEN f.val[jv][jobs] + Hfailed
            ELSE f.val[jv][jobs]]]]

\* the double loop of postFilter
HfailedPass(f, hofx, nl) ==
    [f EXCEPT !.val =
        [jv \in Vars |-> [jobs \in Locs(nl) |->
            IF f.val[jv][jobs] = 0 /\ hofx[HofxIndex(jv, jobs)] = dmiss
            THEN Hfailed
            ELSE f.val[jv][jobs]]]]

PostFilter(r) ==
    /\ pc[r] = "live"
    /\ \E hofx \in [Locs(NumVars * nlocs[r]) -> HofxValues] :
          /\ call' = [op |-> "postFilter", rank |-> r, qcflags |-> flags[r], hofx |-> hofx]
          /\ flags' = [flags EXCEPT ![r] = HfailedPass(flags[r], hofx, nlocs[r])]
    /\ UNCHANGED <<size, nlocs, pc, nwrites, jj, rk, loc, coll, out, dtor>>

\* postFilter is called again with the hofx of the call that has just returned
PostFilterAgain(r) ==
    /\ pc[r] = "live"
    /\ call.op = "postFilter"
    /\ call.rank = r
    /\ call' = [op |-> "postFilterAgain", rank |-> r, qcflags |-> flags[r], hofx |-> call.hofx]
    /\ flags' = [flags EXCEPT ![r] = HfailedPass(flags[r], call.hofx, nlocs[r])]
    /\ UNCHANGED <<size, nlocs, pc, nwrites, jj, rk, loc, coll, out, dtor>>

\* ------------------------------------------------------------------- print
\* how many records of column j hold a code of S
CountIn(f, j, n, S) == Cardinality({jobs \in Locs(n) : f.val[j][jobs] \in S})

\* the scan with the GNSSRO test on one of its two codes only
LocalCountsOneGnssro(f, j, n) ==
    [iobs  |-> n,
     ipass |-> CountIn(f, j, n, {pass}),
     imiss |-> CountIn(f, j, n, {missing}),
     ipreq |-> CountIn(f, j, n, {preQC}),
     ibnds |-> CountIn(f, j, n, {bounds}),
     iwhit |-> CountIn(f, j, n, {domain}),
     iblck |-> CountIn(f, j, n, {black}),
     iherr |-> CountIn(f, j, n, {Hfailed}),
     ifgss |-> CountIn(f, j, n, {fguess}),
     ithin |-> CountIn(f, j, n, {thinned}),
     ignss |-> CountIn(f, j, n, {gnssroA})]

\* the scan as an if / else-if chain that ends in a default
LocalCountsDefaultPass(f, j, n) ==
    [iobs  |-> n,
     ipass |-> CountIn(f, j, n, {c \in {f.val[j][jobs] : jobs \in Locs(n)} :
                                   c \notin RecognizedCodes \ {pass}}),
     imiss |-> CountIn(f, j, n, {missing}),
     ipreq |-> CountIn(f, j, n, {preQC}),
     ibnds |-> CountIn(f, j, n, {bounds}),
     iwhit |-> CountIn(f, j, n, {domain}),
     iblck |-> CountIn(f, j, n, {black}),
     iherr |-> CountIn(f, j, n, {Hfailed}),
     ifgss |-> CountIn(f, j, n, {fguess}),
     ithin |-> CountIn(f, j, n, {thinned}),
     ignss |-> CountIn(f, j, n, {gnssroA, gnssroB})]

\* the scan with a thinning test that Hfailed cells satisfy too
LocalCountsHfailedTwice(f, j, n) ==
    [iobs  |-> n,
     ipass |-> CountIn(f, j, n, {pass}),
     imiss |-> CountIn(f, j, n, {missing}),
     ipreq |-> CountIn(f, j, n, {preQC}),
     ibnds |-> CountIn(f, j, n, {bounds}),
     iwhit |-> CountIn(f, j, n, {domain}),
     iblck |-> CountIn(f, j, n, {black}),
     iherr |-> CountIn(f, j, n, {Hfailed}),
     ifgss |-> CountIn(f, j, n, {fguess}),
     ithin |-> CountIn(f, j, n, {thinned, Hfailed}),
     ignss |-> CountIn(f, j, n, {gnssroA, gnssroB})]

\* the counters after the scan of column j: one independent test per counter
LocalCounts(f, j, n) ==
    [iobs  |-> n,
     ipass |-> CountIn(f, j, n, {pass}),
     imiss |-> CountIn(f, j, n, {missing}),
     ipreq |-> CountIn(f, j, n, {preQC}),
     ibnds |-> CountIn(f, j, n, {bounds}),
     iwhit |-> CountIn(f, j, n, {domain}),
     iblck |-> CountIn(f, j, n, {black}),
     iherr |-> CountIn(f, j, n, {Hfailed}),
     ifgss |-> CountIn(f, j, n, {fguess}),
     ithin |-> CountIn(f, j, n, {thinned}),
     ignss |-> CountIn(f, j, n, {gnssroA, gnssroB})]

\* the orders in which the ranks' contributions to one collective may be combined
Orders == {o \in [1 .. size -> Workers] : \A i, k \in 1 .. size : o[i] = o[k] => i = k}

\* the collective hands every rank the contribution that was combined first
TakeFirst(o, contrib, i) == contrib[o[1]].val

RECURSIVE SumOver(_, _, _)
SumOver(o, contrib, i) ==
    IF i = 0 THEN 0 ELSE SumOver(o, contrib, i - 1) + contrib[o[i]].val

\* ranks other than 0 reduce the counters in the opposite order
CounterAtByRank(r, k) == IF r = 0 THEN ReduceOrder[k] ELSE ReduceOrder[NumReduce + 1 - k]

\* which counter rank r hands to its k-th allReduceInPlace of a variable
CounterAt(r, k) == ReduceOrder[k]

\* rank r, holding the counters lc, enters its k-th allReduceInPlace of variable v.
\* The collective completes when every rank of the communicator has entered one:
\* each then finds the sum in the counter it handed over.
Arrived(r, lc, v, k) ==
    [coll EXCEPT ![r] = [var |-> v, ctr |-> CounterAt(r, k), val |-> lc[CounterAt(r, k)]]]

Complete(arrived) == \A u \in Workers : arrived[u] # NoColl

\* the contributions of the collective that rank r's entry completes, if it does
Joined(r, lc, v, k) ==
    IF Complete(Arrived(r, lc, v, k)) THEN Arrived(r, lc, v, k) ELSE <<>>

AllReduceInPlace(r, lc, v, k) ==
    LET arrived == Arrived(r, lc, v, k)
        held == [u \in Workers |-> IF u = r THEN lc ELSE loc[u]]
    IN  IF Complete(arrived)
        THEN \E o \in Orders :
                /\ loc' = [u \in Workers |->
                             [held[u] EXCEPT ![arrived[u].ctr] = SumOver(o, arrived, size)]]
                /\ coll' = [u \in Workers |-> NoColl]
        ELSE /\ loc' = held
             /\ coll' = arrived

\* top of the loop over jj at v: leave when v = observed_.size(), else scan and reduce iobs
LoopTop(r, v, op) ==
    IF v < NumVars
    THEN /\ jj' = [jj EXCEPT ![r] = v]
         /\ rk' = [rk EXCEPT ![r] = 1]
         /\ AllReduceInPlace(r, LocalCounts(flags[r], v, nlocs[r]), v, 1)
         /\ pc' = [pc EXCEPT ![r] = "reduce"]
         /\ call' = [op |-> op, rank |-> r,
                     joined |-> Joined(r, LocalCounts(flags[r], v, nlocs[r]), v, 1)]
    ELSE /\ jj' = [jj EXCEPT ![r] = v]
         /\ call' = [op |-> op, rank |-> r, joined |-> <<>>]
         /\ rk' = [rk EXCEPT ![r] = 0]
         /\ pc' = [pc EXCEPT ![r] = IF dtor'[r] THEN "destroyed" ELSE "live"]
         /\ UNCHANGED <<loc, coll>>

\* print with a scan whose first test assigns pass to the cells of variable 0
printAssigns(r) ==
    /\ pc[r] = "live"
    /\ dtor' = [dtor EXCEPT ![r] = FALSE]
    /\ out' = [out EXCEPT ![r] = <<>>]
    /\ LoopTop(r, 0, "print")
    /\ flags' = [flags EXCEPT ![r].val[0] = [jobs \in Locs(nlocs[r]) |-> pass]]
    /\ UNCHANGED <<size, nlocs, nwrites>>

\* os << qcmanager
print(r) ==
    /\ pc[r] = "live"
    /\ dtor' = [dtor EXCEPT ![r] = FALSE]
    /\ out' = [out EXCEPT ![r] = <<>>]
    /\ LoopTop(r, 0, "print")
    /\ UNCHANGED <<size, nlocs, flags, nwrites>>

\* ~QCmanager: oops::Log::info() << *this
Destructor(r) ==
    /\ pc[r] = "live"
    /\ dtor' = [dtor EXCEPT ![r] = TRUE]
    /\ out' = [out EXCEPT ![r] = <<>>]
    /\ LoopTop(r, 0, "dtor")
    /\ UNCHANGED <<size, nlocs, flags, nwrites>>

\* a rank without records leaves the remaining reductions of jj out
NextReduceSkipsEmpty(r) ==
    /\ pc[r] = "reduce"
    /\ coll[r] = NoColl
    /\ rk[r] < NumReduce
    /\ IF nlocs[r] = 0
          THEN /\ rk' = [rk EXCEPT ![r] = NumReduce]
               /\ call' = [op |-> "allReduce", rank |-> r, joined |-> <<>>]
               /\ UNCHANGED <<loc, coll>>
          ELSE /\ rk' = [rk EXCEPT ![r] = @ + 1]
               /\ AllReduceInPlace(r, loc[r], jj[r], rk[r] + 1)
               /\ call' = [op |-> "allReduce", rank |-> r,
                           joined |-> Joined(r, loc[r], jj[r], rk[r] + 1)]
    /\ UNCHANGED <<size, nlocs, flags, pc, nwrites, jj, out, dtor>>

\* rank r is back from an allReduceInPlace that is not the last of jj: the next one
NextReduce(r) ==
    /\ pc[r] = "reduce"
    /\ coll[r] = NoColl
    /\ rk[r] < NumReduce
    /\ rk' = [rk EXCEPT ![r] = @ + 1]
    /\ AllReduceInPlace(r, loc[r], jj[r], rk[r] + 1)
    /\ call' = [op |-> "allReduce", rank |-> r, joined |-> Joined(r, loc[r], jj[r], rk[r] + 1)]
    /\ UNCHANGED <<size, nlocs, flags, pc, nwrites, jj, out, dtor>>

\* the report block with the thinning line before the H(x) failed line
ReportLinesThinnedFirst(v, c) ==
    LET line(what, n) == [var |-> v, what |-> what, n |-> n, of |-> 0]
        all == <<line("missing values", c.imiss),
                 line("rejected by pre QC", c.ipreq),
                 line("out of bounds", c.ibnds),
                 line("out of domain of use", c.iwhit),
                 line("black-listed", c.iblck),
                 line("removed by thinning", c.ithin),
                 line("H(x) failed", c.iherr),
                 line("rejected by first-guess check", c.ifgss),
                 line("rejected by GNSSRO reality check", c.ignss)>>
    IN  SelectSeq(all, LAMBDA l : l.n > 0)
          \o <<[var |-> v, what |-> "passed out of", n |-> c.ipass, of |-> c.iobs]>>

\* the lines of variable v for the global counters c
ReportLines(v, c) ==
    LET line(what, n) == [var |-> v, what |-> what, n |-> n, of |-> 0]
        all == <<line("missing values", c.imiss),
                 line("rejected by pre QC", c.ipreq),
                 line("out of bounds", c.ibnds),
                 line("out of domain of use", c.iwhit),
                 line("black-listed", c.iblck),
                 line("H(x) failed", c.iherr),
                 line("removed by thinning", c.ithin),
                 line("rejected by first-guess check", c.ifgss),
                 line("rejected by GNSSRO reality check", c.ignss)>>
    IN  SelectSeq(all, LAMBDA l : l.n > 0)
          \o <<[var |-> v, what |-> "passed out of", n |-> c.ipass, of |-> c.iobs]>>

\* every rank writes the report
ReportsAll(r) == TRUE

\* which rank writes the report
Reports(r) == r = 0

\* rank r is back from the last allReduceInPlace of jj: if (rank() == 0) os << ...
Emit(r) ==
    /\ pc[r] = "reduce"
    /\ coll[r] = NoColl
    /\ rk[r] = NumReduce
    /\ out' = [out EXCEPT ![r] = IF Reports(r) THEN @ \o ReportLines(jj[r], loc[r]) ELSE @]
    /\ pc' = [pc EXCEPT ![r] = "assert"]
    /\ call' = [op |-> "emit", rank |-> r]
    /\ UNCHANGED <<size, nlocs, flags, nwrites, jj, rk, loc, coll, dtor>>

\* the ASSERT that closes the loop body
SumOk(c) ==
    c.ipass + c.imiss + c.ipreq + c.ibnds + c.iwhit + c.iblck
        + c.iherr + c.ithin + c.ifgss + c.ignss = c.iobs

\* the ASSERT compiled out: the loop goes on whatever the counters hold
AssertSumIgnored(r) ==
    /\ pc[r] = "assert"
    /\ dtor' = dtor
    /\ LoopTop(r, jj[r] + 1, "assert")
    /\ UNCHANGED <<size, nlocs, flags, nwrites, out>>

\* the ASSERT inside the block of rank 0: the other ranks go on
AssertSumRankZero(r) ==
    /\ pc[r] = "assert"
    /\ IF r # 0 \/ SumOk(loc[r])
          THEN /\ dtor' = dtor
               /\ LoopTop(r, jj[r] + 1, "assert")
          ELSE /\ pc' = [pc EXCEPT ![r] = "aborted"]
               /\ call' = [op |-> "assert", rank |-> r, joined |-> <<>>]
               /\ UNCHANGED <<jj, rk, loc, coll, dtor>>
    /\ UNCHANGED <<size, nlocs, flags, nwrites, out>>

\* ASSERT(...), then the next jj
AssertSum(r) ==
    /\ pc[r] = "assert"
    /\ IF SumOk(loc[r])
          THEN /\ dtor' = dtor
               /\ LoopTop(r, jj[r] + 1, "assert")
          ELSE /\ pc' = [pc EXCEPT ![r] = "aborted"]
               /\ call' = [op |-> "assert", rank |-> r, joined |-> <<>>]
               /\ UNCHANGED <<jj, rk, loc, coll, dtor>>
    /\ UNCHANGED <<size, nlocs, flags, nwrites, out>>

\* ------------------------------------------------------------ specifications
Next ==
    \/ \E r \in Workers : PreSeed(r)
    \/ \E r \in Workers : Construct(r)
    \/ \E r \in Workers : ExternalFilter(r)
    \/ \E r \in Workers : PostFilter(r)
    \/ \E r \in Workers : print(r)
    \/ \E r \in Workers : Destructor(r)
    \/ \E r \in Workers : NextReduce(r)
    \/ \E r \in Workers : Emit(r)
    \/ \E r \in Workers : AssertSum(r)

\* one QCmanager on a communicator of one rank
Spec == Init /\ [][Next]_vars

\* the same, with the constructor's pass and postFilter run a second time
NextTwice ==
    \/ Next
    \/ \E r \in Workers : ConstructAgain(r)
    \/ \E r \in Workers : PostFilterAgain(r)

SpecTwice == Init /\ [][NextTwice]_vars

\* one QCmanager per rank on a communicator of NumWorkers ranks
SpecShard == InitShard /\ [][Next]_vars

\* a cell is left with a code print has no counter for
Stray(r) ==
    /\ pc[r] = "live"
    /\ nwrites < MaxExternal
    /\ nwrites' = nwrites + 1
    /\ \E jv \in Vars, jobs \in Locs(nlocs[r]), c \in StrayCodes :
          flags' = [flags EXCEPT ![r] = SetCell(flags[r], jv, jobs, c)]
    /\ call' = [op |-> "stray", rank |-> r]
    /\ UNCHANGED <<size, nlocs, pc, jj, rk, loc, coll, out, dtor>>

NextStray == Next \/ \E r \in Workers : Stray(r)

SpecStray == InitShard /\ [][NextStray]_vars

\* QCmanagers on fresh flag vectors; the only write of another filter is the one
\* that leaves an unrecognized code
InitFair == InitShard /\ \A r \in 0 .. NumWorkers - 1 : flags[r] = FreshFlags(nlocs[r])

NextFair ==
    \/ \E r \in Workers : Construct(r)
    \/ \E r \in Workers : PostFilter(r)
    \/ \E r \in Workers : Stray(r)
    \/ \E r \in Workers : print(r)
    \/ \E r \in Workers : Destructor(r)
    \/ \E r \in Workers : NextReduce(r)
    \/ \E r \in Workers : Emit(r)
    \/ \E r \in Workers : AssertSum(r)

\* a rank that is inside print and not blocked in a collective goes on: it
\* enters its next allReduceInPlace, runs the report block, evaluates the ASSERT
PrintRuns ==
    \A r \in 0 .. NumWorkers - 1 :
        /\ WF_vars(NextReduce(r))
        /\ WF_vars(Emit(r))
        /\ WF_vars(AssertSum(r))

SpecFair == InitFair /\ [][NextFair]_vars /\ PrintRuns

\* ------------------------------------------------------------------ claims
RECURSIVE SumLocs(_)
SumLocs(k) == IF k = 0 THEN 0 ELSE SumLocs(k - 1) + nlocs[k - 1]

\* C1: after the constructor has run, every cell whose flag was the integer
\* missing value, or whose ObsValue or ObsError was the float missing value, holds
\* QCflags::missing, whatever it held before.
C1_MissingAfterConstructor ==
    (call.op = "ctor" /\ pc[call.rank] = "live") =>
        \A jv \in Vars, jobs \in Locs(nlocs[call.rank]) :
            (\/ call.qcflags.val[jv][jobs] = imissValue
             \/ call.obs.val[jv][jobs] = rmiss
             \/ call.obserr.val[jv][jobs] = rmiss)
                => flags[call.rank].val[jv][jobs] = missing

\* a cell pre-seeded with preQC whose ObsError is missing, and a passing cell whose
\* ObsValue is missing, both hold missing after the constructor
C1_Witness ==
    /\ call.op = "ctor"
    /\ pc[call.rank] = "live"
    /\ \E jv \in Vars, jobs \in Locs(nlocs[call.rank]) :
          /\ call.qcflags.val[jv][jobs] = preQC
          /\ call.obs.val[jv][jobs] # rmiss
          /\ call.obserr.val[jv][jobs] = rmiss
          /\ flags[call.rank].val[jv][jobs] = missing
    /\ \E jv \in Vars, jobs \in Locs(nlocs[call.rank]) :
          /\ call.qcflags.val[jv][jobs] = pass
          /\ call.obs.val[jv][jobs] = rmiss
          /\ call.obserr.val[jv][jobs] # rmiss
          /\ flags[call.rank].val[jv][jobs] = missing

\* C2: postFilter sets a cell to Hfailed exactly when it held pass and the H(x)
\* value at index V*jobs + jv is missing; a passing cell with a present H(x)
\* value still passes.
C2_PostFilterFlipsPass ==
    call.op = "postFilter" =>
        \A jv \in Vars, jobs \in Locs(nlocs[call.rank]) :
            LET before == call.qcflags.val[jv][jobs]
                after == flags[call.rank].val[jv][jobs]
                hx == call.hofx[NumVars * jobs + jv]
            IN  /\ (before = pass /\ hx = dmiss) => after = Hfailed
                /\ (before = pass /\ hx # dmiss) => after = pass
                /\ (after = Hfailed /\ before # Hfailed) => (before = pass /\ hx = dmiss)

\* with two records: record 1 of variable 0 fails on hofx[2], and the cells read
\* from hofx[1] and hofx[0] keep passing
C2_Witness ==
    /\ call.op = "postFilter"
    /\ nlocs[call.rank] = 2
    /\ call.qcflags.val[0][1] = pass
    /\ call.qcflags.val[1][0] = pass
    /\ call.hofx[2] = dmiss
    /\ call.hofx[1] # dmiss
    /\ flags[call.rank].val[0][1] = Hfailed
    /\ flags[call.rank].val[1][0] = pass

\* C3: postFilter leaves every cell that did not hold pass as it was.
C3_PostFilterFrame ==
    call.op = "postFilter" =>
        \A jv \in Vars, jobs \in Locs(nlocs[call.rank]) :
            call.qcflags.val[jv][jobs] # pass
                => flags[call.rank].val[jv][jobs] = call.qcflags.val[jv][jobs]

\* a missing cell and a cell rejected by another filter, both with a missing
\* H(x) value, are as they were
C3_Witness ==
    /\ call.op = "postFilter"
    /\ \E jv \in Vars, jobs \in Locs(nlocs[call.rank]) :
          /\ call.qcflags.val[jv][jobs] = missing
          /\ call.hofx[NumVars * jobs + jv] = dmiss
          /\ flags[call.rank].val[jv][jobs] = missing
    /\ \E jv \in Vars, jobs \in Locs(nlocs[call.rank]) :
          /\ call.qcflags.val[jv][jobs] \in ExternalCodes
          /\ call.hofx[NumVars * jobs + jv] = dmiss
          /\ flags[call.rank].val[jv][jobs] = call.qcflags.val[jv][jobs]

\* C4: no step (constructor, postFilter, print, destructor, another filter's
\* write) takes a cell that does not hold pass to pass.
C4_NeverBackToPass ==
    [][\A r \in Workers :
          \A jv \in DOMAIN flags[r].val : \A jobs \in DOMAIN flags[r].val[jv] :
              flags[r].val[jv][jobs] # pass => flags'[r].val[jv][jobs] # pass]_vars

\* a QCmanager that was constructed, filtered, printed and destroyed, with a
\* missing cell, an Hfailed cell and a cell rejected by another filter
C4_Witness ==
    \E r \in Workers :
        /\ pc[r] = "destroyed"
        /\ \E jv \in Vars, jobs \in Locs(nlocs[r]) : flags[r].val[jv][jobs] = missing
        /\ \E jv \in Vars, jobs \in Locs(nlocs[r]) : flags[r].val[jv][jobs] = Hfailed
        /\ \E jv \in Vars, jobs \in Locs(nlocs[r]) : flags[r].val[jv][jobs] \in ExternalCodes

\* C5: whenever a rank evaluates the ASSERT of print, the reduced category
\* counters add up to the reduced iobs, which is the number of records of all
\* ranks; so no print aborts.
C5_SumEqualsTotal ==
    \A r \in Workers :
        /\ pc[r] # "aborted"
        /\ pc[r] = "assert" =>
              /\ loc[r].iobs = SumLocs(size)
              /\ loc[r].ipass + loc[r].imiss + loc[r].ipreq + loc[r].ibnds + loc[r].iwhit
                   + loc[r].iblck + loc[r].iherr + loc[r].ithin + loc[r].ifgss
                   + loc[r].ignss = loc[r].iobs

\* two ranks with one record each: one cell missing, one Hfailed
C5_Witness ==
    \E r \in Workers :
        /\ pc[r] = "assert"
        /\ size > 1
        /\ loc[r].iobs = size
        /\ loc[r].imiss >= 1
        /\ loc[r].iherr >= 1

\* the lines of variable v that rank r has written
LinesOf(r, v) == SelectSeq(out[r], LAMBDA l : l.var = v)

RECURSIVE SumN(_)
SumN(ls) == IF ls = <<>> THEN 0 ELSE Head(ls).n + SumN(Tail(ls))

IsSummary(l) == l.what = "passed out of"

CategorySum(c) ==
    c.ipass + c.imiss + c.ipreq + c.ibnds + c.iwhit + c.iblck
        + c.iherr + c.ithin + c.ifgss + c.ignss

HasStray(r, v) == \E jobs \in Locs(nlocs[r]) : flags[r].val[v][jobs] \notin RecognizedCodes

\* C7: a cell with an unrecognized code is counted under no category, and the
\* ASSERT fails at that cell's variable: the scan's local counters add up to the
\* number of cells with a recognized code; a printing rank with such a cell in
\* column v never gets beyond v, fails the ASSERT at v, and never ends its print.
C7_StrayFailsCheck ==
    \A r \in Workers :
        /\ pc[r] = "destroyed" => \A v \in Vars : ~HasStray(r, v)
        /\ pc[r] \in {"reduce", "assert", "aborted"} =>
              \A v \in Vars : HasStray(r, v) => jj[r] <= v
        /\ (pc[r] = "assert" /\ HasStray(r, jj[r])) => CategorySum(loc[r]) # loc[r].iobs
        /\ (pc[r] = "reduce" /\ rk[r] = 1 /\ coll[r] # NoColl) =>
              CategorySum(loc[r]) =
                  Cardinality({jobs \in Locs(nlocs[r]) :
                                  flags[r].val[jj[r]][jobs] \in RecognizedCodes})

\* a rank has aborted at the variable of its unrecognized cell
C7_Witness ==
    \E r \in Workers :
        /\ size > 1
        /\ pc[r] = "aborted"
        /\ HasStray(r, jj[r])

\* C8: only rank 0 writes report lines and it writes none twice; the other ranks
\* go through all the reductions of the variable (at the ASSERT they hold the
\* same reduced counters as rank 0) and write nothing.
C8_OnlyRankZeroReports ==
    /\ \A r \in Workers : r # 0 => out[r] = <<>>
    /\ \A i, k \in 1 .. Len(out[0]) : out[0][i] = out[0][k] => i = k
    /\ pc[0] = "assert" =>
          /\ Len(LinesOf(0, jj[0])) >= 1
          /\ IsSummary(out[0][Len(out[0])])
    /\ \A r, u \in Workers :
          (pc[r] = "assert" /\ pc[u] = "assert" /\ jj[r] = jj[u]) =>
              /\ loc[r] = loc[u]
              /\ rk[r] = NumReduce

\* both ranks are through their print: rank 0 has written a category line and a
\* summary line per variable, rank 1 nothing
C8_Witness ==
    /\ size > 1
    /\ pc[0] = "destroyed"
    /\ pc[1] = "destroyed"
    /\ Len(out[0]) > NumVars
    /\ out[1] = <<>>

CollectiveOps == {"print", "dtor", "allReduce", "assert"}

\* C9: every rank enters the reductions in the same order, variable by variable
\* and within a variable in the fixed order of the counters, so every collective
\* combines the same counter of the same variable on all ranks.
C9_SameReductionSequence ==
    /\ \A r \in Workers :
          coll[r] # NoColl =>
              /\ pc[r] = "reduce"
              /\ coll[r].var = jj[r]
              /\ coll[r].ctr = ReduceOrder[rk[r]]
    /\ (call.op \in CollectiveOps /\ call.joined # <<>>) =>
          \A u, w \in Workers :
              /\ call.joined[u].var = call.joined[w].var
              /\ call.joined[u].ctr = call.joined[w].ctr

\* the last collective of the last variable completes on two ranks whose
\* matrices differ
C9_Witness ==
    /\ size > 1
    /\ call.op \in CollectiveOps
    /\ call.joined # <<>>
    /\ call.joined[0].var = NumVars - 1
    /\ call.joined[0].ctr = "ithin"
    /\ call.joined[0].val # call.joined[1].val

\* the codes counted by each counter
CounterCodes ==
    [ipass |-> {pass}, imiss |-> {missing}, ipreq |-> {preQC}, ibnds |-> {bounds},
     iwhit |-> {domain}, iblck |-> {black}, iherr |-> {Hfailed}, ifgss |-> {fguess},
     ithin |-> {thinned}, ignss |-> {gnssroA, gnssroB}]

\* what rank w counts for counter c in column v
LocalOf(w, v, c) ==
    IF c = "iobs" THEN nlocs[w]
    ELSE Cardinality({jobs \in Locs(nlocs[w]) : flags[w].val[v][jobs] \in CounterCodes[c]})

RECURSIVE RankSum(_, _, _)
RankSum(k, v, c) == IF k = 0 THEN 0 ELSE RankSum(k - 1, v, c) + LocalOf(k - 1, v, c)

\* C10: when a collective completes, every rank holds in the reduced counter the
\* sum over all ranks of that rank's local count (for iobs, of the ranks'
\* nlocs), in whatever order the contributions were combined.
C10_GlobalIsSumOfLocals ==
    (call.op \in CollectiveOps /\ call.joined # <<>>) =>
        \A u \in Workers :
            loc[u][call.joined[u].ctr] = RankSum(size, call.joined[u].var, call.joined[u].ctr)

\* two ranks contribute one passing cell each and both hold 2
C10_Witness ==
    /\ size > 1
    /\ call.op \in CollectiveOps
    /\ call.joined # <<>>
    /\ call.joined[0].ctr = "ipass"
    /\ \A w \in Workers : call.joined[w].val = 1
    /\ \A w \in Workers : loc[w].ipass = size

\* C11: the constructor's pass leaves a cell that holds missing at missing, and
\* run a second time with the same ObsValue and ObsError on the matrix the first
\* run produced it changes no cell.
C11_MissingPassIdempotent ==
    (call.op \in {"ctor", "ctorAgain"} /\ pc[call.rank] = "live") =>
        /\ \A jv \in Vars, jobs \in Locs(nlocs[call.rank]) :
              call.qcflags.val[jv][jobs] = missing
                  => flags[call.rank].val[jv][jobs] = missing
        /\ call.op = "ctorAgain" => flags[call.rank] = call.qcflags

\* the second run has returned on a matrix with a cell that was missing before
\* the first run and has no sentinel, a cell the first run set to missing, and a
\* cell that passes
C11_Witness ==
    /\ call.op = "ctorAgain"
    /\ \E jv \in Vars, jobs \in Locs(nlocs[call.rank]) :
          /\ flags[call.rank].val[jv][jobs] = missing
          /\ call.obs.val[jv][jobs] # rmiss
          /\ call.obserr.val[jv][jobs] # rmiss
    /\ \E jv \in Vars, jobs \in Locs(nlocs[call.rank]) :
          /\ flags[call.rank].val[jv][jobs] = missing
          /\ call.obs.val[jv][jobs] = rmiss
    /\ \E jv \in Vars, jobs \in Locs(nlocs[call.rank]) :
          flags[call.rank].val[jv][jobs] = pass

\* C12: postFilter called a second time with the same hofx, right after the
\* first call, changes no cell.
C12_PostFilterIdempotent ==
    call.op = "postFilterAgain" => flags[call.rank] = call.qcflags

\* the second call has returned on a matrix with a cell the first call set to
\* Hfailed, a passing cell whose H(x) value is present and a missing cell whose
\* H(x) value is missing
C12_Witness ==
    /\ call.op = "postFilterAgain"
    /\ \E jv \in Vars, jobs \in Locs(nlocs[call.rank]) :
          /\ flags[call.rank].val[jv][jobs] = Hfailed
          /\ call.hofx[HofxIndex(jv, jobs)] = dmiss
    /\ \E jv \in Vars, jobs \in Locs(nlocs[call.rank]) :
          /\ flags[call.rank].val[jv][jobs] = pass
          /\ call.hofx[HofxIndex(jv, jobs)] # dmiss
    /\ \E jv \in Vars, jobs \in Locs(nlocs[call.rank]) :
          /\ flags[call.rank].val[jv][jobs] = missing
          /\ call.hofx[HofxIndex(jv, jobs)] = dmiss

\* the shapes of two arrays differ
ShapesDiffer(a, b) == a.nvars # b.nvars \/ a.nlocs # b.nlocs

\* C13: the constructor fails whenever the shape of the flags differs from the
\* shape of the ObsValue array or of obserr, or their number of variables from
\* the length of the variable list; the flags are then as the caller handed
\* them over.
C13_MismatchFailsUntouched ==
    (/\ call.op = "ctor"
     /\ \/ ShapesDiffer(call.qcflags, call.obs)
        \/ ShapesDiffer(call.qcflags, call.obserr)
        \/ call.qcflags.nvars # NumVars)
        => /\ pc[call.rank] = "failed"
           /\ flags[call.rank] = call.qcflags

\* the constructor has failed on an obserr with one record too many; the flags
\* have the right shape, and the cell holding the integer missing value, whose
\* ObsValue is missing too, still holds it
C13_Witness ==
    /\ call.op = "ctor"
    /\ pc[call.rank] = "failed"
    /\ ~ShapesDiffer(call.qcflags, call.obs)
    /\ call.obserr.nlocs = nlocs[call.rank] + 1
    /\ \E jv \in Vars, jobs \in Locs(nlocs[call.rank]) :
          /\ call.obs.val[jv][jobs] = rmiss
          /\ flags[call.rank].val[jv][jobs] = imissValue

\* the categories in the order claimed for their lines, each with its counter
CategoryOrder ==
    <<[what |-> "missing values", ctr |-> "imiss"],
      [what |-> "rejected by pre QC", ctr |-> "ipreq"],
      [what |-> "out of bounds", ctr |-> "ibnds"],
      [what |-> "out of domain of use", ctr |-> "iwhit"],
      [what |-> "black-listed", ctr |-> "iblck"],
      [what |-> "H(x) failed", ctr |-> "iherr"],
      [what |-> "removed by thinning", ctr |-> "ithin"],
      [what |-> "rejected by first-guess check", ctr |-> "ifgss"],
      [what |-> "rejected by GNSSRO reality check", ctr |-> "ignss"]>>

\* the place of a line in the claimed order, the summary line last
PlaceOf(l) ==
    IF IsSummary(l) THEN Len(CategoryOrder) + 1
    ELSE CHOOSE k \in 1 .. Len(CategoryOrder) : CategoryOrder[k].what = l.what

HadSentinel(jv, jobs) ==
    \/ call.qcflags.val[jv][jobs] = imissValue
    \/ call.obs.val[jv][jobs] = rmiss
    \/ call.obserr.val[jv][jobs] = rmiss

\* C15: after the constructor, a cell without a sentinel holds the code it held
\* before, and a cell holds missing only if it had a sentinel or held missing
\* before.
C15_ConstructorFrame ==
    (call.op = "ctor" /\ pc[call.rank] = "live") =>
        \A jv \in Vars, jobs \in Locs(nlocs[call.rank]) :
            /\ ~HadSentinel(jv, jobs)
                  => flags[call.rank].val[jv][jobs] = call.qcflags.val[jv][jobs]
            /\ flags[call.rank].val[jv][jobs] = missing
                  => (HadSentinel(jv, jobs) \/ call.qcflags.val[jv][jobs] = missing)

\* a record with a sentinel for one variable and none for the other: the first
\* cell holds missing, the second still passes; and a cell rejected before the
\* constructor, without a sentinel, keeps its code
C15_Witness ==
    /\ call.op = "ctor"
    /\ pc[call.rank] = "live"
    /\ \E jobs \in Locs(nlocs[call.rank]) : \E jv, kv \in Vars :
          /\ HadSentinel(jv, jobs)
          /\ flags[call.rank].val[jv][jobs] = missing
          /\ ~HadSentinel(kv, jobs)
          /\ flags[call.rank].val[kv][jobs] = pass
    /\ \E jv \in Vars, jobs \in Locs(nlocs[call.rank]) :
          /\ ~HadSentinel(jv, jobs)
          /\ call.qcflags.val[jv][jobs] \in ExternalCodes
          /\ flags[call.rank].val[jv][jobs] = call.qcflags.val[jv][jobs]

\* the steps of print, from os << qcmanager or from the destructor
PrintOps == {"print", "dtor", "allReduce", "emit", "assert"}
\* the steps that write flags: the constructor, postFilter, the other filters
WriteOps == {"ctor", "postFilter", "preseed", "filter", "stray"}

\* C16: no step of print changes a cell, on any rank, whether the ASSERT holds
\* or fails; a step that changes a cell is a step of the constructor, of
\* postFilter, or of another filter.
C16_PrintReadsOnly ==
    [][/\ call'.op \in PrintOps => flags' = flags
       /\ flags' # flags => call'.op \in WriteOps]_vars

\* both ranks have aborted their print: one holds the unrecognized code it held
\* when print began, the other a missing cell, and rank 0 has written lines
C16_Witness ==
    /\ size > 1
    /\ \A r \in Workers : pc[r] = "aborted"
    /\ \E r \in Workers : HasStray(r, jj[r])
    /\ \E r \in Workers : \E jv \in Vars, jobs \in Locs(nlocs[r]) :
          flags[r].val[jv][jobs] = missing
    /\ out[0] # <<>>

\* C17, as claimed: the destructor starts no report and no reduction: a rank
\* whose QCmanager is being or has been destroyed has entered no
\* allReduceInPlace and has written no line since the destructor began.
C17_DestructorSilent ==
    \A r \in Workers :
        dtor[r] => /\ coll[r] = NoColl
                   /\ pc[r] \notin {"reduce", "assert", "aborted"}
                   /\ out[r] = <<>>

\* every rank's QCmanager has been destroyed without a print since its last
\* write: the destructors have gone through the reductions of every variable
\* and rank 0 has written the lines of every variable
C17_Witness ==
    /\ size > 1
    /\ \A r \in Workers : pc[r] = "destroyed" /\ dtor[r] /\ jj[r] = NumVars
    /\ call.op = "assert"
    /\ \A v \in Vars : Len(LinesOf(0, v)) >= 1

\* rank u is back from the last allReduceInPlace of its jj and has not yet
\* evaluated the ASSERT
BeforeAssert(u) ==
    \/ pc[u] = "assert"
    \/ pc[u] = "reduce" /\ rk[u] = NumReduce /\ coll[u] = NoColl

\* C18: the ranks evaluate the ASSERT of a variable on the same reduced
\* counters, so it holds on all of them or fails on all of them: when a rank
\* has aborted at jj, every other rank is at the same jj, holds the same
\* counters, and has aborted or is about to; none has gone on to jj + 1.
C18_SameOutcomeEverywhere ==
    \A r, u \in Workers :
        /\ (BeforeAssert(r) /\ BeforeAssert(u) /\ jj[r] = jj[u]) => loc[r] = loc[u]
        /\ pc[r] = "aborted" =>
              /\ jj[u] = jj[r]
              /\ loc[u] = loc[r]
              /\ ~SumOk(loc[u])
              /\ pc[u] = "aborted" \/ BeforeAssert(u)

\* rank 0, whose cells all hold recognized codes, has aborted at the variable
\* where rank 1 holds an unrecognized code, and rank 1 is at its ASSERT
C18_Witness ==
    /\ size > 1
    /\ pc[0] = "aborted"
    /\ \A v \in Vars : ~HasStray(0, v)
    /\ HasStray(1, jj[0])
    /\ pc[1] = "assert"

\* every rank is at the ASSERT of variable v, before or after evaluating it
AllAtAssert(v) ==
    \A u \in Workers : jj[u] = v /\ (BeforeAssert(u) \/ pc[u] = "aborted")

\* C19: the scan counts a cell under at most one category, so a rank's local
\* category counters add up to no more than its number of records; and when
\* the ranks are at the ASSERT of a variable, the reduced counters add up to
\* the reduced iobs exactly when no rank holds an unrecognized code in that
\* variable's column.
C19_NoMasking ==
    \A r \in Workers :
        /\ (pc[r] = "reduce" /\ rk[r] = 1 /\ coll[r] # NoColl) =>
              /\ loc[r].iobs = nlocs[r]
              /\ CategorySum(loc[r]) <= nlocs[r]
              /\ \A jobs \in Locs(nlocs[r]) :
                    Cardinality({c \in DOMAIN CounterCodes :
                                    flags[r].val[jj[r]][jobs] \in CounterCodes[c]}) <= 1
        /\ (jj[r] < NumVars /\ AllAtAssert(jj[r])) =>
              (SumOk(loc[r]) <=> \A u \in Workers : ~HasStray(u, jj[r]))

\* the ranks are at the ASSERT of a variable for which one holds an Hfailed
\* cell and the other an unrecognized code: the counters add up to one less
\* than iobs
C19_Witness ==
    /\ size > 1
    /\ \E v \in Vars :
          /\ AllAtAssert(v)
          /\ \E r, u \in Workers :
                /\ \E jobs \in Locs(nlocs[r]) : flags[r].val[v][jobs] = Hfailed
                /\ HasStray(u, v)
                /\ loc[r].iherr = 1
                /\ CategorySum(loc[r]) = loc[r].iobs - 1

\* every rank has entered print and the first allReduceInPlace of variable 0
\* has just completed
AllStarted ==
    \A r \in Workers : pc[r] = "reduce" /\ jj[r] = 0 /\ rk[r] = 1 /\ coll[r] = NoColl

\* rank r is out of print: back in the caller, destroyed, or aborted by the ASSERT
OutOfPrint(r) == pc[r] \in {"live", "destroyed", "aborted"}

\* C20: once every rank has entered print (each with its own number of
\* records, which may be 0), every rank gets out of it, by returning or by
\* failing the ASSERT; none waits for ever in an allReduceInPlace.
C20_PrintTerminates ==
    \A r \in 0 .. NumWorkers - 1 : AllStarted ~> OutOfPrint(r)

\* a rank without records and a rank with one have both returned from a print
\* they went through together, and rank 0 has written the summary line of the
\* last variable
C20_Witness ==
    /\ size > 1
    /\ nlocs[0] = 0
    /\ nlocs[1] = 1
    /\ \A r \in Workers : pc[r] = "live" /\ jj[r] = NumVars
    /\ call.op = "assert"
    /\ Len(out[0]) >= NumVars
    /\ out[0][Len(out[0])] =
          [var |-> NumVars - 1, what |-> "passed out of", n |-> 1, of |-> 1]

====
